---- MODULE Spec2Model ----
(***************************************************************************)
(* The e-mail delivery queue of the job portal: the EmailQueue collection, *)
(* the EmailQueueProcessor that polls it, the notification controller that *)
(* enqueues jobs and the admin handlers that retry and cancel them.        *)
(*                                                                         *)
(* Time is in minutes since the process started (at 00:00 server time).    *)
(* The admin handlers serve one request at a time.                         *)
(* A Mongoose save() writes the paths assigned since the document was      *)
(* loaded, with no condition on the stored document; each action below is  *)
(* one such database round trip together with the synchronous code around  *)
(* it.                                                                     *)
(***************************************************************************)
EXTENDS Integers, Sequences, FiniteSets, TLC

VARIABLES now, queue, prefs, isProcessing, ticks, admin, sends,
          up, notifications, lastCall, digestRuns, users

vars == <<now, queue, prefs, isProcessing, ticks, admin, sends,
         up, notifications, lastCall, digestRuns, users>>

(* ------------------------------ bounds --------------------------------- *)

\* Jobs created in one run of Spec, SpecBatch, SpecPrefs and SpecCluster.
MaxJobs == 1
MaxBatchJobs == 2
MaxPrefsJobs == 1
MaxClusterJobs == 1
\* Jobs created in one run of SpecCrash.
MaxCrashJobs == 1
\* Runs of each digest generator that select the same user in SpecDigest.
MaxDigestRuns == 2
\* Jobs created and times the clock is advanced in one run of SpecRetry.
MaxRetryJobs == 1
\* Jobs created and weeks that pass in one run of SpecRetention.
MaxRetentionJobs == 1
\* Jobs created in one run of SpecHang.
MaxHangJobs == 1
\* Jobs created in one run of SpecRender.
MaxRenderJobs == 1
\* Jobs the producers create in one run of SpecMail.
MaxMailJobs == 1
\* Jobs queued in one run of SpecQuiet.
MaxQuietJobs == 1
\* Jobs created in one run of SpecAgree.
MaxAgreeJobs == 1
\* Jobs created, and readings of the clock, in one run of SpecGone.
MaxGoneJobs == 1
MaxGoneClockSteps == 3
\* Jobs the producers create in one run of SpecPersist.
MaxPersistJobs == 2
\* Notifications that exist at a time in one run of SpecRead.
MaxReadNotifications == 2
MaxWeeks == 1
\* Notifications created in one run of SpecNotify.
MaxNotifications == 2
MaxRetryClockSteps == 4
\* Times the clock is advanced in one run.
MaxClockSteps == 2

(* ------------------------- program constants --------------------------- *)

BatchSize == 10
RetryAttempts == 3
RetryDelay == 5
\* 7 days, in minutes.
RetentionWindow == 10080

Users == {"u1"}
Insts == {1, 2}
Slots == {<<1, 1>>, <<1, 2>>, <<2, 1>>, <<2, 2>>}

NoDate == -1
NoReason == "none"
OptedOut == "User has opted out of this email type"
CancelledByAdmin == "Cancelled by admin"
TransportError == "transport error"

Statuses == {"pending", "processing", "sent", "failed", "cancelled"}
\* queue keeps the place of a document that deleteMany has removed from the
\* collection, marked with this status: no query finds it.
Deleted == "deleted"
Priorities == {"low", "medium", "high"}

(* --------------------------- string helpers ---------------------------- *)

\* UTF-8 code units of the three priority strings.
CodeUnits(p) ==
  CASE p = "high" -> <<104, 105, 103, 104>>
    [] p = "low" -> <<108, 111, 119>>
    [] p = "medium" -> <<109, 101, 100, 105, 117, 109>>

Min(a, b) == IF a <= b THEN a ELSE b

\* MongoDB's order on strings (no collation): binary, unit by unit.
RECURSIVE StrLess(_, _)
StrLess(a, b) ==
  IF b = <<>> THEN FALSE
  ELSE IF a = <<>> THEN TRUE
  ELSE IF Head(a) # Head(b) THEN Head(a) < Head(b)
  ELSE StrLess(Tail(a), Tail(b))

Digits == {"0", "1", "2", "3", "4", "5", "6", "7", "8", "9"}

DigitVal(c) ==
  CASE c = "0" -> 0 [] c = "1" -> 1 [] c = "2" -> 2 [] c = "3" -> 3
    [] c = "4" -> 4 [] c = "5" -> 5 [] c = "6" -> 6 [] c = "7" -> 7
    [] c = "8" -> 8 [] c = "9" -> 9

\* s.split(':')[0]: the characters before the first colon.
RECURSIVE SplitHead(_)
SplitHead(s) ==
  IF s = <<>> \/ Head(s) = ":" THEN <<>>
  ELSE <<Head(s)>> \o SplitHead(Tail(s))

NaN == -1

\* parseInt on a string of characters: the leading digits, NaN if none.
RECURSIVE ParseDigits(_, _)
ParseDigits(s, acc) ==
  IF s = <<>> \/ Head(s) \notin Digits THEN acc
  ELSE ParseDigits(Tail(s), 10 * acc + DigitVal(Head(s)))

ParseInt(s) ==
  IF s = <<>> \/ Head(s) \notin Digits THEN NaN ELSE ParseDigits(s, 0)

\* Date.getHours() of the server clock.
GetHours(t) == (t \div 60) % 24

(* ----------------------------- preferences ----------------------------- *)

T2200 == <<"2", "2", ":", "0", "0">>
T0800 == <<"0", "8", ":", "0", "0">>
T0900 == <<"0", "9", ":", "0", "0">>
T1700 == <<"1", "7", ":", "0", "0">>

\* The "HH:00" string of hour h, as the settings page stores it.
DigitChar(n) ==
  CASE n = 0 -> "0" [] n = 1 -> "1" [] n = 2 -> "2" [] n = 3 -> "3"
    [] n = 4 -> "4" [] n = 5 -> "5" [] n = 6 -> "6" [] n = 7 -> "7"
    [] n = 8 -> "8" [] n = 9 -> "9"

HourString(h) == <<DigitChar(h \div 10), DigitChar(h % 10), ":", "0", "0">>

Hours == 0..23

NoPrefs == [exists |-> FALSE]

\* null, where a user document was expected.
NoUser == "null"

\* The schema defaults of a NotificationPreferences document.
DefaultPrefs ==
  [exists |-> TRUE, enabled |-> TRUE, jobMatches |-> TRUE,
   applicationUpdates |-> TRUE, connectionRequests |-> TRUE,
   weeklyDigest |-> TRUE, frequency |-> "immediate", qhEnabled |-> FALSE,
   startTime |-> T2200, endTime |-> T0800]

\* The documents a user's update request can store.
PrefChoices ==
  { DefaultPrefs,
    [DefaultPrefs EXCEPT !.enabled = FALSE],
    [DefaultPrefs EXCEPT !.applicationUpdates = FALSE],
    [DefaultPrefs EXCEPT !.qhEnabled = TRUE],
    [DefaultPrefs EXCEPT !.qhEnabled = TRUE, !.startTime = T0900,
                         !.endTime = T1700] }

\* The documents stored by users who set quiet hours, or leave them off.
QuietPrefChoices ==
  { [DefaultPrefs EXCEPT !.qhEnabled = on, !.startTime = HourString(a),
                         !.endTime = HourString(b)] :
      on \in BOOLEAN, a \in Hours, b \in Hours }

\* The documents stored by users who switch e-mail categories on and off.
CategoryPrefChoices ==
  { [DefaultPrefs EXCEPT !.enabled = e, !.jobMatches = j,
                         !.applicationUpdates = a, !.connectionRequests = c] :
      e \in BOOLEAN, j \in BOOLEAN, a \in BOOLEAN, c \in BOOLEAN }

\* The documents stored by users who choose how often they get e-mail.
DigestPrefChoices ==
  { DefaultPrefs,
    [DefaultPrefs EXCEPT !.frequency = "daily"],
    [DefaultPrefs EXCEPT !.frequency = "weekly"],
    [DefaultPrefs EXCEPT !.frequency = "daily", !.weeklyDigest = FALSE] }

\* The documents stored by users who switch e-mail or a category off.
NotifyPrefChoices ==
  { DefaultPrefs,
    [DefaultPrefs EXCEPT !.enabled = FALSE],
    [DefaultPrefs EXCEPT !.applicationUpdates = FALSE],
    [DefaultPrefs EXCEPT !.jobMatches = FALSE],
    [DefaultPrefs EXCEPT !.frequency = "daily"],
    [DefaultPrefs EXCEPT !.frequency = "weekly"] }

(* ------------------------- eligibility filter -------------------------- *)

\* typePreferenceMap[emailType] of shouldSkipEmail; "" when the type has no entry.
TypePreferenceKey(emailType) ==
  CASE emailType = "job_alert" -> "jobMatches"
    [] emailType = "application_confirmation" -> "applicationUpdates"
    [] emailType = "notification_immediate" -> "applicationUpdates"
    [] emailType = "interview_reminder" -> "applicationUpdates"
    [] emailType = "daily_digest" -> "weeklyDigest"
    [] emailType = "weekly_digest" -> "weeklyDigest"
    [] OTHER -> ""

\* emailPrefs[key] of a stored preferences document.
EmailPref(p, key) ==
  CASE key = "jobMatches" -> p.jobMatches
    [] key = "applicationUpdates" -> p.applicationUpdates
    [] key = "connectionRequests" -> p.connectionRequests
    [] key = "weeklyDigest" -> p.weeklyDigest
    [] OTHER -> TRUE

\* Mutant of InQuietHours: a window over midnight is tested like one within
\* a day.
InQuietHoursNoWrap(p, t) ==
  LET currentHour == GetHours(t)
      startHour == ParseInt(SplitHead(p.startTime))
      endHour == ParseInt(SplitHead(p.endTime))
  IN  /\ p.qhEnabled
      /\ currentHour >= startHour /\ currentHour <= endHour

\* The quiet-hours test of shouldSkipEmail; a comparison with NaN is false.
InQuietHours(p, t) ==
  LET currentHour == GetHours(t)
      startHour == ParseInt(SplitHead(p.startTime))
      endHour == ParseInt(SplitHead(p.endTime))
  IN  /\ p.qhEnabled
      /\ startHour # NaN
      /\ endHour # NaN
      /\ IF startHour > endHour
         THEN currentHour >= startHour \/ currentHour <= endHour
         ELSE currentHour >= startHour /\ currentHour <= endHour

ShouldSkipEmail(emailType, p, t) ==
  IF ~p.exists THEN TRUE
  ELSE IF ~p.enabled THEN TRUE
  ELSE IF TypePreferenceKey(emailType) # ""
          /\ EmailPref(p, TypePreferenceKey(emailType)) = FALSE THEN TRUE
  ELSE InQuietHours(p, t)

\* emailTypeMap of the notification controller.
GetEmailTypeForNotification(ntype) ==
  CASE ntype = "job_match" -> "job_alert"
    [] ntype = "job_application" -> "application_confirmation"
    [] ntype = "interview_scheduled" -> "interview_reminder"
    [] OTHER -> "notification_immediate"

\* typeMap of shouldSendEmailForType; "" when the type has no entry.
NotificationPreferenceKey(ntype) ==
  CASE ntype = "job_match" -> "jobMatches"
    [] ntype = "job_application" -> "applicationUpdates"
    [] ntype = "application_status_change" -> "applicationUpdates"
    [] ntype = "connection_request" -> "connectionRequests"
    [] ntype = "connection_accepted" -> "connectionRequests"
    [] ntype = "skill_endorsed" -> "endorsements"
    [] ntype = "recommendation_request" -> "recommendations"
    [] ntype = "recommendation_received" -> "recommendations"
    [] ntype = "assessment_invitation" -> "assessmentInvitations"
    [] ntype = "assessment_completed" -> "assessmentInvitations"
    [] OTHER -> ""

ShouldSendEmailForType(p, ntype) ==
  \/ NotificationPreferenceKey(ntype) = ""
  \/ EmailPref(p, NotificationPreferenceKey(ntype)) # FALSE

(* ------------------------------ the queue ------------------------------ *)

JobIds == 1..Len(queue)

\* The transport calls counted for n new jobs.
Zeros(n) == [i \in 1..n |-> 0]

\* EmailQueue.create: the schema defaults fill what the caller leaves out.
NewJob(u, emailType, priority, t) ==
  [recipient |-> u, emailType |-> emailType, priority |-> priority,
   status |-> "pending", scheduledFor |-> t, attempts |-> 0,
   lastAttempt |-> NoDate, sentAt |-> NoDate, failureReason |-> NoReason,
   createdAt |-> t]

\* The filter of processQueue's find().
Eligible(q, t) ==
  { j \in 1..Len(q) : /\ q[j].status = "pending"
                      /\ q[j].scheduledFor <= t
                      /\ q[j].attempts < RetryAttempts }

\* sort({ priority: -1, createdAt: 1 }): a comes strictly before b.
SortsBefore(a, b) ==
  \/ StrLess(CodeUnits(b.priority), CodeUnits(a.priority))
  \/ a.priority = b.priority /\ a.createdAt < b.createdAt

\* The orders the sort can return for the set S (equal keys in any order).
Sorted(S, q) ==
  { s \in [1..Cardinality(S) -> S] :
      /\ \A i, k \in 1..Cardinality(S) : i # k => s[i] # s[k]
      /\ \A i, k \in 1..Cardinality(S) :
           i < k => ~SortsBefore(q[s[k]], q[s[i]]) }

\* populate('recipient', 'name email'): the user document, or null when the
\* users collection holds none with that id.
Populated(u) == IF u \in users THEN u ELSE NoUser

\* The documents find() hands to the loop: sorted, then cut at the limit.
PendingEmails(q, t) ==
  { [i \in 1..Min(Len(s), BatchSize) |->
        [id |-> s[i], attempts |-> q[s[i]].attempts,
         recipient |-> Populated(q[s[i]].recipient)]] :
    s \in Sorted(Eligible(q, t), q) }

(* ------------------------------- state --------------------------------- *)

IdleTick == [pc |-> "idle", batch |-> <<>>]
NoRequest == [op |-> "none", id |-> 0, attempts |-> 0, reason |-> NoReason]
\* The last call of a producer: which function, what went wrong in it and how
\* it ended.
NoCall == [call |-> "none", fault |-> "none", outcome |-> "none"]

Init ==
  /\ now = 0
  /\ queue = <<>>
  /\ prefs = [u \in Users |-> NoPrefs]
  /\ isProcessing = [i \in Insts |-> FALSE]
  /\ ticks = [s \in Slots |-> IdleTick]
  /\ admin = NoRequest
  /\ sends = <<>>
  /\ up = [i \in Insts |-> TRUE]
  /\ notifications = <<>>
  /\ lastCall = NoCall
  /\ digestRuns = [u \in Users |-> [daily |-> 0, weekly |-> 0]]
  /\ users = Users

\* Wall-clock time passes; the clock is observed every retryDelay minutes,
\* until it reads limit.
AdvanceClockUpTo(limit) ==
  /\ now < limit
  /\ now' = now + RetryDelay
  /\ UNCHANGED <<queue, prefs, isProcessing, ticks, admin, sends,
                 up, notifications, lastCall, digestRuns, users>>

AdvanceClock == AdvanceClockUpTo(MaxClockSteps * RetryDelay)

(* ----------------------------- preferences ----------------------------- *)

\* GET preferences: creates the default document when the user has none.
GetNotificationPreferences(u) ==
  /\ ~prefs[u].exists
  /\ prefs' = [prefs EXCEPT ![u] = DefaultPrefs]
  /\ UNCHANGED <<now, queue, isProcessing, ticks, admin, sends,
                 up, notifications, lastCall, digestRuns, users>>

\* PUT preferences: findOneAndUpdate with upsert stores the request's document.
UpdateNotificationPreferences(u, p) ==
  /\ prefs[u] # p
  /\ prefs' = [prefs EXCEPT ![u] = p]
  /\ UNCHANGED <<now, queue, isProcessing, ticks, admin, sends,
                 up, notifications, lastCall, digestRuns, users>>

(* ------------------------------ producers ------------------------------ *)

\* Mutant of WantsEmail: the preferences are not consulted.
WantsEmailAlways(p, ntype) == TRUE

\* The two tests of queueEmailNotification on the preferences document.
WantsEmail(p, ntype) ==
  /\ p.exists
  /\ p.enabled
  /\ ShouldSendEmailForType(p, ntype)

\* queueEmailNotification for a notification of type ntype to user u, when
\* every lookup answers and the type has an active e-mail template.
QueueEmailNotification(u, ntype, urgent) ==
  /\ WantsEmail(prefs[u], ntype)
  /\ queue' = Append(queue,
                NewJob(u, GetEmailTypeForNotification(ntype),
                       IF urgent THEN "high" ELSE "medium", now))
  /\ sends' = Append(sends, 0)
  /\ UNCHANGED <<now, prefs, isProcessing, ticks, admin,
                 up, notifications, lastCall, digestRuns, users>>

\* What can go wrong during one call of createNotification: nothing, or the
\* named call rejects (Notification.create, the socket push, the preferences
\* lookup, the template lookup, EmailQueue.create).
NotifyFaults == {"none", "create", "push", "prefs", "template", "queue"}

\* The jobs one call of queueEmailNotification adds: none when a lookup or
\* the create rejects (caught and logged), when the preferences say no or
\* when no active template with an e-mail body exists.
QueuedEmail(u, ntype, urgent, fault, hasTemplate, t) ==
  IF fault = "prefs" THEN <<>>
  ELSE IF ~WantsEmail(prefs[u], ntype) THEN <<>>
  ELSE IF fault = "template" \/ ~hasTemplate THEN <<>>
  ELSE IF fault = "queue" THEN <<>>
  ELSE <<NewJob(u, GetEmailTypeForNotification(ntype),
                IF urgent THEN "high" ELSE "medium", t)>>

\* Mutant of NotifyOutcome: every caught error is thrown to the caller.
NotifyOutcomeRethrows(fault) ==
  IF fault # "none" THEN "threw" ELSE "returned"

\* How createNotification ends: only an error of Notification.create reaches
\* its catch block and is thrown again.
NotifyOutcome(fault) ==
  IF fault = "create" THEN "threw" ELSE "returned"

\* createNotification / createNotificationFromTemplate for user u.
CreateNotification(u, ntype, urgent, fault, hasTemplate) ==
  /\ lastCall' = [call |-> "createNotification", fault |-> fault,
                  outcome |-> NotifyOutcome(fault)]
  /\ IF fault = "create"
     THEN UNCHANGED <<notifications, queue, sends>>
     ELSE LET new == QueuedEmail(u, ntype, urgent, fault, hasTemplate, now)
          IN  /\ notifications' =
                   Append(notifications,
                          [recipient |-> u, type |-> ntype,
                           priority |-> IF urgent THEN "urgent" ELSE "medium",
                           isRead |-> FALSE, isArchived |-> FALSE,
                           readAt |-> NoDate])
              /\ queue' = queue \o new
              /\ sends' = sends \o Zeros(Len(new))
  /\ UNCHANGED <<now, prefs, isProcessing, ticks, admin, up, digestRuns, users>>

(* ------------------------- reading notifications ---------------------- *)

\* Mutant of MarkedRead: the time of reading is not stored.
MarkedReadNoDate(n, t) == [n EXCEPT !.isRead = TRUE]

\* The update every read-marking operation applies to a notification.
MarkedRead(n, t) == [n EXCEPT !.isRead = TRUE, !.readAt = t]

\* updateMany(filter, { isRead: true, readAt: new Date() }) over the
\* notifications of S that are still unread.
MarkedUnreadOf(S, t) ==
  [i \in 1..Len(notifications) |->
     IF i \in S /\ ~notifications[i].isRead
     THEN MarkedRead(notifications[i], t)
     ELSE notifications[i]]

\* The notifications getNotifications lists for user u.
Listed(u) ==
  { i \in 1..Len(notifications) :
      notifications[i].recipient = u /\ ~notifications[i].isArchived }

\* GET notifications of user u, with or without markAsRead=true.
GetNotifications(u, markAsRead) ==
  /\ notifications' = IF markAsRead THEN MarkedUnreadOf(Listed(u), now)
                                    ELSE notifications
  /\ UNCHANGED <<now, queue, prefs, isProcessing, ticks, admin, sends, up,
                 lastCall, digestRuns, users>>

\* markNotificationAsRead: findOne, then the document's markAsRead().
MarkNotificationAsRead(i) ==
  /\ i \in 1..Len(notifications)
  /\ notifications' = [notifications EXCEPT ![i] = MarkedRead(@, now)]
  /\ UNCHANGED <<now, queue, prefs, isProcessing, ticks, admin, sends, up,
                 lastCall, digestRuns, users>>

\* markAllAsRead for user u.
MarkAllAsRead(u) ==
  /\ notifications' =
       MarkedUnreadOf({ i \in 1..Len(notifications) :
                          notifications[i].recipient = u }, now)
  /\ UNCHANGED <<now, queue, prefs, isProcessing, ticks, admin, sends, up,
                 lastCall, digestRuns, users>>

\* The socket event mark_notification_read: findByIdAndUpdate.
SocketMarkNotificationRead(i) ==
  /\ i \in 1..Len(notifications)
  /\ notifications' = [notifications EXCEPT ![i] = MarkedRead(@, now)]
  /\ UNCHANGED <<now, queue, prefs, isProcessing, ticks, admin, sends, up,
                 lastCall, digestRuns, users>>

\* archiveNotification: the document's archive() saves isArchived only.
ArchiveNotification(i) ==
  /\ i \in 1..Len(notifications)
  /\ notifications' = [notifications EXCEPT ![i].isArchived = TRUE]
  /\ UNCHANGED <<now, queue, prefs, isProcessing, ticks, admin, sends, up,
                 lastCall, digestRuns, users>>

\* deleteNotification: findOneAndDelete.
DeleteNotification(i) ==
  /\ i \in 1..Len(notifications)
  /\ notifications' = [k \in 1..(Len(notifications) - 1) |->
                         IF k < i THEN notifications[k]
                                  ELSE notifications[k + 1]]
  /\ UNCHANGED <<now, queue, prefs, isProcessing, ticks, admin, sends, up,
                 lastCall, digestRuns, users>>

\* createDailyDigestEmail for user u.
CreateDailyDigestEmail(u) ==
  /\ queue' = Append(queue, NewJob(u, "daily_digest", "low", now))
  /\ sends' = Append(sends, 0)
  /\ UNCHANGED <<now, prefs, isProcessing, ticks, admin,
                 up, notifications, lastCall, digestRuns, users>>

(* ------------------------------- digests ------------------------------- *)

\* The calendar day of a time.
Day(t) == t \div 1440

\* The users the query of generateDailyDigests is written to select.
DailyDigestUsers ==
  { u \in Users : prefs[u].exists /\ prefs[u].frequency = "daily" }

\* The users the query of generateWeeklyDigests is written to select.
WeeklyDigestUsers ==
  { u \in Users : prefs[u].exists /\ prefs[u].weeklyDigest }

\* The users one run creates a digest for. The User schema has no
\* notificationPreferences path, so the query rejects or selects no one, and
\* compileTemplate rejects when the template file is missing: the run then
\* creates nothing. Otherwise every selected user gets a job.
DigestRunResults(selected) == { {}, selected }

\* EmailQueue.create for each user of U, in the order of the loop.
RECURSIVE DigestJobs(_, _, _)
DigestJobs(U, emailType, t) ==
  IF U = {} THEN <<>>
  ELSE LET u == CHOOSE x \in U : TRUE
       IN  <<NewJob(u, emailType, "low", t)>>
             \o DigestJobs(U \ {u}, emailType, t)

\* The cron callback of 08:00 calls generateDailyDigests.
GenerateDailyDigests ==
  /\ \E U \in DigestRunResults(DailyDigestUsers) :
       /\ queue' = queue \o DigestJobs(U, "daily_digest", now)
       /\ sends' = sends \o Zeros(Cardinality(U))
  /\ digestRuns' = [u \in Users |->
                      IF u \in DailyDigestUsers
                      THEN [digestRuns[u] EXCEPT !.daily = @ + 1]
                      ELSE digestRuns[u]]
  /\ UNCHANGED <<now, prefs, isProcessing, ticks, admin, up, notifications,
                 lastCall, users>>

\* The cron callback of Sunday 09:00 calls generateWeeklyDigests.
GenerateWeeklyDigests ==
  /\ \E U \in DigestRunResults(WeeklyDigestUsers) :
       /\ queue' = queue \o DigestJobs(U, "weekly_digest", now)
       /\ sends' = sends \o Zeros(Cardinality(U))
  /\ digestRuns' = [u \in Users |->
                      IF u \in WeeklyDigestUsers
                      THEN [digestRuns[u] EXCEPT !.weekly = @ + 1]
                      ELSE digestRuns[u]]
  /\ UNCHANGED <<now, prefs, isProcessing, ticks, admin, up, notifications,
                 lastCall, users>>

\* createDailyDigestEmail for user u when compileTemplate rejects: the
\* argument of EmailQueue.create is never built, create is not called and
\* the error is thrown to the caller.
CreateDailyDigestEmailRenderFails(u) ==
  /\ lastCall' = [call |-> "createDailyDigestEmail", fault |-> "render",
                  outcome |-> "threw"]
  /\ UNCHANGED <<now, queue, prefs, isProcessing, ticks, admin, sends, up,
                 notifications, digestRuns, users>>

(* -------------------------- the email controller ---------------------- *)

\* The queue helpers the email controller and the setup guide call.
QueueHelpers == {"queueWelcomeEmail", "queuePasswordResetEmail",
                 "queueJobAlertEmail"}

\* The methods declared static in class EmailQueueProcessor.
StaticMethods == QueueHelpers

\* Mutant of OnInstance: static methods can be called on an instance.
OnInstanceAlways(m) == TRUE

\* Is m a property of the object that emailQueueProcessor.js exports
\* (new EmailQueueProcessor())? A static method belongs to the class only.
OnInstance(m) == m \notin StaticMethods

\* The job helper m creates for user u.
HelperJob(m, u, t) ==
  CASE m = "queueWelcomeEmail" -> NewJob(u, "welcome", "high", t)
    [] m = "queuePasswordResetEmail" -> NewJob(u, "password_reset", "high", t)
    [] m = "queueJobAlertEmail" -> NewJob(u, "job_alert", "medium", t)

\* sendWelcomeEmail / sendPasswordResetEmail / sendJobAlertEmail for user u:
\* emailQueueProcessor[m](user, ...) is called; a TypeError is caught and
\* answered with status 500.
SendQueuedEmail(m, u) ==
  IF OnInstance(m)
  THEN /\ queue' = Append(queue, HelperJob(m, u, now))
       /\ sends' = Append(sends, 0)
       /\ lastCall' = [call |-> m, fault |-> "none", outcome |-> "returned"]
       /\ UNCHANGED <<now, prefs, isProcessing, ticks, admin, up,
                      notifications, digestRuns, users>>
  ELSE /\ lastCall' = [call |-> m, fault |-> "TypeError", outcome |-> "threw"]
       /\ UNCHANGED <<now, queue, prefs, isProcessing, ticks, admin, sends, up,
                      notifications, digestRuns, users>>

(* ---------------------------- the processor ---------------------------- *)

Inst(s) == s[1]

\* Mutant of MayEnter: the isProcessing test is missing.
MayEnterAlways(i) == TRUE

\* May a call of processQueue on instance i go past the isProcessing test?
MayEnter(i) == ~isProcessing[i]

\* The cron callback calls processQueue; slot s holds the call while it runs.
ProcessQueue(s) ==
  /\ up[Inst(s)]
  /\ ticks[s].pc = "idle"
  /\ \A r \in Slots : Inst(r) = Inst(s) /\ r[2] < s[2] => ticks[r].pc # "idle"
  /\ IF MayEnter(Inst(s))
     THEN /\ isProcessing' = [isProcessing EXCEPT ![Inst(s)] = TRUE]
          /\ ticks' = [ticks EXCEPT ![s].pc = "find"]
     ELSE UNCHANGED <<isProcessing, ticks>>
  /\ UNCHANGED <<now, queue, prefs, admin, sends,
                 up, notifications, lastCall, digestRuns, users>>

\* The loop moves on: the next document, or the end of the tick (finally).
Continue(s, rest) ==
  IF rest = <<>>
  THEN /\ ticks' = [ticks EXCEPT ![s] = IdleTick]
       /\ isProcessing' = [isProcessing EXCEPT ![Inst(s)] = FALSE]
  ELSE /\ ticks' = [ticks EXCEPT ![s] = [pc |-> "mark", batch |-> rest]]
       /\ UNCHANGED isProcessing

\* EmailQueue.find answers: an empty result ends the tick, else the loop starts.
FindPending(s) ==
  /\ ticks[s].pc = "find"
  /\ \E b \in PendingEmails(queue, now) : Continue(s, b)
  /\ UNCHANGED <<now, queue, prefs, admin, sends,
                 up, notifications, lastCall, digestRuns, users>>

\* EmailQueue.find rejects: processQueue's catch logs, finally releases.
FindFails(s) ==
  /\ ticks[s].pc = "find"
  /\ ticks' = [ticks EXCEPT ![s] = IdleTick]
  /\ isProcessing' = [isProcessing EXCEPT ![Inst(s)] = FALSE]
  /\ UNCHANGED <<now, queue, prefs, admin, sends,
                 up, notifications, lastCall, digestRuns, users>>

\* Mutant of MarkedJob: the attempt is counted twice.
MarkedJobCountsTwice(job, d, t) ==
  [job EXCEPT !.status = "processing", !.attempts = d.attempts + 2,
              !.lastAttempt = t]

\* What the first save of processEmailJob stores for the loaded document d.
MarkedJob(job, d, t) ==
  [job EXCEPT !.status = "processing", !.attempts = d.attempts + 1,
              !.lastAttempt = t]

\* processEmailJob, up to the first save.
MarkProcessing(s) ==
  /\ ticks[s].pc = "mark"
  /\ LET d == Head(ticks[s].batch)
     IN  /\ queue' = [queue EXCEPT ![d.id] = MarkedJob(queue[d.id], d, now)]
         /\ ticks' = [ticks EXCEPT
                        ![s].pc = "prefs",
                        ![s].batch = <<[d EXCEPT !.attempts = d.attempts + 1]>>
                                     \o Tail(ticks[s].batch)]
  /\ UNCHANGED <<now, prefs, isProcessing, admin, sends,
                 up, notifications, lastCall, digestRuns, users>>

\* Mutant of SkippedJob: an opt-out is recorded as a failure.
SkippedJobAsFailed(job) ==
  [job EXCEPT !.status = "failed", !.failureReason = OptedOut]

\* What the save of the skip branch stores.
SkippedJob(job) ==
  [job EXCEPT !.status = "cancelled", !.failureReason = OptedOut]

\* The preferences are read and shouldSkipEmail decides: the job is cancelled,
\* or emailService.sendEmail is called.
CheckPreferences(s) ==
  /\ ticks[s].pc = "prefs"
  /\ Head(ticks[s].batch).recipient # NoUser
  /\ LET d == Head(ticks[s].batch)
         job == queue[d.id]
     IN  IF ShouldSkipEmail(job.emailType, prefs[job.recipient], now)
         THEN /\ queue' = [queue EXCEPT ![d.id] = SkippedJob(job)]
              /\ Continue(s, Tail(ticks[s].batch))
              /\ UNCHANGED sends
         ELSE /\ ticks' = [ticks EXCEPT ![s].pc = "send"]
              /\ sends' = [sends EXCEPT ![d.id] = @ + 1]
              /\ UNCHANGED <<queue, isProcessing>>
  /\ UNCHANGED <<now, prefs, admin,
                 up, notifications, lastCall, digestRuns, users>>

\* Mutant of SentJob: the successful attempt is not counted.
SentJobUncounted(job, t) ==
  [job EXCEPT !.status = "sent", !.sentAt = t, !.attempts = @ - 1]

\* What the save after a successful send stores.
SentJob(job, t) == [job EXCEPT !.status = "sent", !.sentAt = t]

\* sendEmail resolves.
SendSucceeds(s) ==
  /\ ticks[s].pc = "send"
  /\ LET d == Head(ticks[s].batch)
     IN  /\ queue' = [queue EXCEPT ![d.id] = SentJob(queue[d.id], now)]
         /\ Continue(s, Tail(ticks[s].batch))
  /\ UNCHANGED <<now, prefs, admin, sends,
                 up, notifications, lastCall, digestRuns, users>>

\* Mutant of FailedJob: the retry is scheduled without the delay.
FailedJobNoDelay(job, d, t) ==
  IF d.attempts >= RetryAttempts
  THEN [job EXCEPT !.status = "failed", !.failureReason = TransportError]
  ELSE [job EXCEPT !.status = "pending", !.scheduledFor = t]

\* Mutant of FailedJob: the job is given up one attempt early.
FailedJobOneEarly(job, d, t) ==
  IF d.attempts >= RetryAttempts - 1
  THEN [job EXCEPT !.status = "failed", !.failureReason = TransportError]
  ELSE [job EXCEPT !.status = "pending", !.scheduledFor = t + RetryDelay]

\* What the save of the catch block stores for the loaded document d.
FailedJob(job, d, t) ==
  IF d.attempts >= RetryAttempts
  THEN [job EXCEPT !.status = "failed", !.failureReason = TransportError]
  ELSE [job EXCEPT !.status = "pending", !.scheduledFor = t + RetryDelay]

\* sendEmail rejects: the catch block of processEmailJob.
SendFails(s) ==
  /\ ticks[s].pc = "send"
  /\ LET d == Head(ticks[s].batch)
     IN  /\ queue' = [queue EXCEPT ![d.id] = FailedJob(queue[d.id], d, now)]
         /\ Continue(s, Tail(ticks[s].batch))
  /\ UNCHANGED <<now, prefs, admin, sends,
                 up, notifications, lastCall, digestRuns, users>>

\* The loaded document has no recipient: emailJob.recipient._id throws in
\* the try block, emailJob.recipient.email throws again in the first line of
\* the catch block, before anything is saved; processQueue's catch logs the
\* error and finally releases the flag.
RecipientMissing(s) ==
  /\ ticks[s].pc = "prefs"
  /\ Head(ticks[s].batch).recipient = NoUser
  /\ ticks' = [ticks EXCEPT ![s] = IdleTick]
  /\ isProcessing' = [isProcessing EXCEPT ![Inst(s)] = FALSE]
  /\ UNCHANGED <<now, queue, prefs, admin, sends,
                 up, notifications, lastCall, digestRuns, users>>

\* The user document of u is removed from the users collection.
RemoveUser(u) ==
  /\ u \in users
  /\ users' = users \ {u}
  /\ UNCHANGED <<now, queue, prefs, isProcessing, ticks, admin, sends,
                 up, notifications, lastCall, digestRuns>>

\* The database rejects the writes while the document at the head of the
\* batch is handled: the save in the try block (or the step before it)
\* rejects, the save in the catch block of processEmailJob rejects too, the
\* error reaches the catch of processQueue, which logs it, and finally
\* releases the flag. Nothing of the document is stored.
PersistenceFails(s) ==
  /\ ticks[s].pc \in {"mark", "prefs", "send"}
  /\ ticks' = [ticks EXCEPT ![s] = IdleTick]
  /\ isProcessing' = [isProcessing EXCEPT ![Inst(s)] = FALSE]
  /\ UNCHANGED <<now, queue, prefs, admin, sends,
                 up, notifications, lastCall, digestRuns, users>>

\* The provider never answers the call made by sendEmail: processEmailJob
\* and sendEmail set no timer, so the await of this tick never settles.
SendHangs(s) ==
  /\ ticks[s].pc = "send"
  /\ ticks' = [ticks EXCEPT ![s].pc = "hung"]
  /\ UNCHANGED <<now, queue, prefs, isProcessing, admin, sends, up,
                 notifications, lastCall, digestRuns, users>>

(* ------------------------------ retention ------------------------------ *)

\* A week passes.
AdvanceWeek ==
  /\ now < MaxWeeks * RetentionWindow
  /\ now' = now + RetentionWindow
  /\ UNCHANGED <<queue, prefs, isProcessing, ticks, admin, sends, up,
                 notifications, lastCall, digestRuns, users>>

\* { field: { $lt: cutoff } }: a document without the field does not match.
Before(date, cutoff) == date # NoDate /\ date < cutoff

\* Mutant of Expired: the status is not looked at.
ExpiredAnyStatus(job, t) ==
  job.status # Deleted /\ Before(job.createdAt, t - RetentionWindow)

\* The filter of cleanupOldEmails' deleteMany at time t.
Expired(job, t) ==
  LET oneWeekAgo == t - RetentionWindow
  IN  \/ job.status = "sent" /\ Before(job.sentAt, oneWeekAgo)
      \/ job.status = "failed" /\ Before(job.lastAttempt, oneWeekAgo)
      \/ job.status = "cancelled" /\ Before(job.createdAt, oneWeekAgo)

\* The cron callback of 02:00 calls cleanupOldEmails.
CleanupOldEmails ==
  /\ queue' = [j \in 1..Len(queue) |->
                 IF Expired(queue[j], now)
                 THEN [queue[j] EXCEPT !.status = Deleted]
                 ELSE queue[j]]
  /\ UNCHANGED <<now, prefs, isProcessing, ticks, admin, sends, up,
                 notifications, lastCall, digestRuns, users>>

(* ------------------------- stopping and starting ----------------------- *)

\* The server process of instance i dies: its ticks, its isProcessing flag and
\* the request it was serving are gone; the database keeps what was saved.
Crash(i) ==
  /\ up[i]
  /\ up' = [up EXCEPT ![i] = FALSE]
  /\ ticks' = [s \in Slots |-> IF Inst(s) = i THEN IdleTick ELSE ticks[s]]
  /\ isProcessing' = [isProcessing EXCEPT ![i] = FALSE]
  /\ admin' = NoRequest
  /\ UNCHANGED <<now, queue, prefs, sends, notifications, lastCall,
                 digestRuns, users>>

\* The server starts again: the constructor, then start(), which schedules
\* the cron callbacks and reads or writes no job.
Start(i) ==
  /\ ~up[i]
  /\ up' = [up EXCEPT ![i] = TRUE]
  /\ isProcessing' = [isProcessing EXCEPT ![i] = FALSE]
  /\ UNCHANGED <<now, queue, prefs, ticks, admin, sends, notifications,
                 lastCall, digestRuns, users>>

(* -------------------------- the admin handlers ------------------------- *)

\* Mutant of RetryFailedEmailStatus: the status test is missing.
RetryFailedEmailStatusAny(job) == 200

\* The HTTP status retryFailedEmail answers with for the job findById returned.
RetryFailedEmailStatus(job) ==
  IF job.status = Deleted THEN 404
  ELSE IF job.status # "failed" THEN 400 ELSE 200

\* retryFailedEmail, up to findById and the status test.
RetryFailedEmailFind(j) ==
  /\ admin.op = "none"
  /\ j \in JobIds
  /\ IF RetryFailedEmailStatus(queue[j]) # 200
     THEN UNCHANGED admin
     ELSE admin' = [op |-> "retry", id |-> j, attempts |-> queue[j].attempts,
                    reason |-> queue[j].failureReason]
  /\ UNCHANGED <<now, queue, prefs, isProcessing, ticks, sends,
                 up, notifications, lastCall, digestRuns, users>>

\* What retryFailedEmail's save stores: the paths whose value changed.
RetriedJob(job, a, t) ==
  [job EXCEPT !.status = "pending",
              !.attempts = IF a.attempts # 0 THEN 0 ELSE @,
              !.scheduledFor = t,
              !.failureReason = IF a.reason # NoReason THEN NoReason ELSE @]

RetryFailedEmailSave ==
  /\ admin.op = "retry"
  /\ queue' = [queue EXCEPT ![admin.id] = RetriedJob(queue[admin.id], admin, now)]
  /\ sends' = [sends EXCEPT ![admin.id] = 0]
  /\ admin' = NoRequest
  /\ UNCHANGED <<now, prefs, isProcessing, ticks,
                 up, notifications, lastCall, digestRuns, users>>

\* Mutant of CancelEmailStatus: the status test is missing.
CancelEmailStatusAny(job) == 200

\* The HTTP status cancelEmail answers with for the job findById returned.
CancelEmailStatus(job) ==
  IF job.status = Deleted THEN 404
  ELSE IF job.status \notin {"pending", "processing"} THEN 400 ELSE 200

\* cancelEmail, up to findById and the status test.
CancelEmailFind(j) ==
  /\ admin.op = "none"
  /\ j \in JobIds
  /\ IF CancelEmailStatus(queue[j]) # 200
     THEN UNCHANGED admin
     ELSE admin' = [op |-> "cancel", id |-> j, attempts |-> queue[j].attempts,
                    reason |-> queue[j].failureReason]
  /\ UNCHANGED <<now, queue, prefs, isProcessing, ticks, sends,
                 up, notifications, lastCall, digestRuns, users>>

\* What cancelEmail's save stores.
CancelledJob(job) ==
  [job EXCEPT !.status = "cancelled", !.failureReason = CancelledByAdmin]

CancelEmailSave ==
  /\ admin.op = "cancel"
  /\ queue' = [queue EXCEPT ![admin.id] = CancelledJob(queue[admin.id])]
  /\ admin' = NoRequest
  /\ UNCHANGED <<now, prefs, isProcessing, ticks, sends,
                 up, notifications, lastCall, digestRuns, users>>

(* --------------------------- specifications ---------------------------- *)

NotifTypes == {"application_status_change"}

\* The clock and the producers; at most cap jobs are created, from
\* notifications whose priority is urgent or not as urgency allows.
Environment(cap, urgency) ==
  \/ AdvanceClock
  \/ \E u \in Users : GetNotificationPreferences(u)
  \/ /\ Len(queue) < cap
     /\ \E u \in Users, n \in NotifTypes, g \in urgency :
          QueueEmailNotification(u, n, g)
  \/ /\ Len(queue) < cap
     /\ \E u \in Users : CreateDailyDigestEmail(u)

Preferences ==
  \E u \in Users, p \in PrefChoices : UpdateNotificationPreferences(u, p)

Processor(s) ==
  \/ ProcessQueue(s)
  \/ FindPending(s)
  \/ FindFails(s)
  \/ MarkProcessing(s)
  \/ CheckPreferences(s)
  \/ SendSucceeds(s)
  \/ SendFails(s)

Admin ==
  \/ \E j \in JobIds : RetryFailedEmailFind(j)
  \/ RetryFailedEmailSave
  \/ \E j \in JobIds : CancelEmailFind(j)
  \/ CancelEmailSave

\* One server process: one EmailQueueProcessor and the admin handlers.
Next ==
  \/ Environment(MaxJobs, {FALSE})
  \/ \E s \in Slots : Inst(s) = 1 /\ Processor(s)
  \/ Admin

Spec == Init /\ [][Next]_vars

\* The same process with enough jobs for a batch of several.
NextBatch ==
  \/ Environment(MaxBatchJobs, BOOLEAN)
  \/ \E s \in Slots : Inst(s) = 1 /\ Processor(s)
  \/ Admin

SpecBatch == Init /\ [][NextBatch]_vars

\* The same process with users who change their preferences.
NextPrefs ==
  \/ Environment(MaxPrefsJobs, {FALSE})
  \/ Preferences
  \/ \E s \in Slots : Inst(s) = 1 /\ Processor(s)
  \/ Admin

SpecPrefs == Init /\ [][NextPrefs]_vars

\* Two server processes on the same database.
NextCluster ==
  \/ Environment(MaxClusterJobs, {FALSE})
  \/ \E s \in Slots : Processor(s)

SpecCluster == Init /\ [][NextCluster]_vars

\* One server process that can die and be started again. The cron callbacks
\* keep firing and every database and transport call answers, so each step
\* of a tick is eventually taken; the process is eventually started again.
NextCrash ==
  \/ Environment(MaxCrashJobs, {FALSE})
  \/ \E s \in Slots : Inst(s) = 1 /\ Processor(s)
  \/ Crash(1)
  \/ Start(1)

SpecCrash ==
  /\ Init
  /\ [][NextCrash]_vars
  /\ WF_vars(Processor(<<1, 1>>))
  /\ WF_vars(Processor(<<1, 2>>))
  /\ WF_vars(Start(1))

\* The digest generators, with users who choose their frequency.
NextDigest ==
  \/ AdvanceClock
  \/ \E u \in Users : GetNotificationPreferences(u)
  \/ \E u \in Users, p \in DigestPrefChoices :
       UpdateNotificationPreferences(u, p)
  \/ /\ \A u \in Users : digestRuns[u].daily < MaxDigestRuns
     /\ GenerateDailyDigests
  \/ /\ \A u \in Users : digestRuns[u].weekly < MaxDigestRuns
     /\ GenerateWeeklyDigests

SpecDigest == Init /\ [][NextDigest]_vars

\* One server process and an admin who retries failed jobs, observed long
\* enough for a job to be given up, retried and given up again.
NextRetry ==
  \/ AdvanceClockUpTo(MaxRetryClockSteps * RetryDelay)
  \/ \E u \in Users : GetNotificationPreferences(u)
  \/ /\ Len(queue) < MaxRetryJobs
     /\ \E u \in Users, n \in NotifTypes : QueueEmailNotification(u, n, FALSE)
  \/ \E s \in Slots : Inst(s) = 1 /\ Processor(s)
  \/ \E j \in JobIds : RetryFailedEmailFind(j)
  \/ RetryFailedEmailSave

SpecRetry == Init /\ [][NextRetry]_vars

NotifyTypes == {"application_status_change", "job_match", "skill_verified"}

\* The producers: notifications are created for users who change their
\* preferences, while lookups, the push and the queue may be unavailable.
NextNotify ==
  \/ AdvanceClock
  \/ \E u \in Users : GetNotificationPreferences(u)
  \/ \E u \in Users, p \in NotifyPrefChoices :
       UpdateNotificationPreferences(u, p)
  \/ /\ Len(notifications) < MaxNotifications
     /\ \E u \in Users, n \in NotifyTypes, g \in BOOLEAN,
           f \in NotifyFaults, h \in BOOLEAN :
          CreateNotification(u, n, g, f, h)

SpecNotify == Init /\ [][NextNotify]_vars

\* The documents stored by users who switch e-mail off and on.
RetentionPrefChoices == { DefaultPrefs, [DefaultPrefs EXCEPT !.enabled = FALSE] }

\* One server process observed over weeks, with the retention sweep.
NextRetention ==
  \/ Environment(MaxRetentionJobs, {FALSE})
  \/ \E u \in Users, p \in RetentionPrefChoices :
       UpdateNotificationPreferences(u, p)
  \/ \E s \in Slots : Inst(s) = 1 /\ Processor(s)
  \/ AdvanceWeek
  \/ CleanupOldEmails

SpecRetention == Init /\ [][NextRetention]_vars

\* One server process whose mail provider may leave a call unanswered. The
\* cron callbacks keep firing and the database always answers, so each step
\* of a tick that can be taken is eventually taken.
NextHang ==
  \/ Environment(MaxHangJobs, {FALSE})
  \/ \E s \in Slots : Inst(s) = 1 /\ (Processor(s) \/ SendHangs(s))

SpecHang ==
  /\ Init
  /\ [][NextHang]_vars
  /\ WF_vars(Processor(<<1, 1>>) \/ SendHangs(<<1, 1>>))
  /\ WF_vars(Processor(<<1, 2>>) \/ SendHangs(<<1, 2>>))

\* One server process whose digest template may fail to render.
NextRender ==
  \/ Environment(MaxRenderJobs, {FALSE})
  \/ \E u \in Users : CreateDailyDigestEmailRenderFails(u)
  \/ \E s \in Slots : Inst(s) = 1 /\ Processor(s)

SpecRender == Init /\ [][NextRender]_vars

\* Users who receive, read, archive and delete notifications.
NextRead ==
  \/ AdvanceClock
  \/ /\ Len(notifications) < MaxReadNotifications
     /\ \E u \in Users, n \in NotifTypes, g \in BOOLEAN :
          CreateNotification(u, n, g, "none", FALSE)
  \/ \E u \in Users, m \in BOOLEAN : GetNotifications(u, m)
  \/ \E i \in 1..Len(notifications) : MarkNotificationAsRead(i)
  \/ \E u \in Users : MarkAllAsRead(u)
  \/ \E i \in 1..Len(notifications) : SocketMarkNotificationRead(i)
  \/ \E i \in 1..Len(notifications) : ArchiveNotification(i)
  \/ \E i \in 1..Len(notifications) : DeleteNotification(i)

SpecRead == Init /\ [][NextRead]_vars

\* One server process whose email controller queues helper e-mails.
NextMail ==
  \/ Environment(MaxMailJobs, {FALSE})
  \/ /\ Len(queue) < MaxMailJobs + 1
     /\ \E m \in QueueHelpers, u \in Users : SendQueuedEmail(m, u)
  \/ \E s \in Slots : Inst(s) = 1 /\ Processor(s)

SpecMail == Init /\ [][NextMail]_vars

\* The server at any hour of the day, the user's quiet hours stored.
InitQuiet ==
  /\ now \in { 60 * h : h \in Hours }
  /\ queue = <<>>
  /\ prefs \in [Users -> QuietPrefChoices]
  /\ isProcessing = [i \in Insts |-> FALSE]
  /\ ticks = [s \in Slots |-> IdleTick]
  /\ admin = NoRequest
  /\ sends = <<>>
  /\ up = [i \in Insts |-> TRUE]
  /\ notifications = <<>>
  /\ lastCall = NoCall
  /\ digestRuns = [u \in Users |-> [daily |-> 0, weekly |-> 0]]
  /\ users = Users

\* A digest is queued and one tick of the processor decides on it.
NextQuiet ==
  \/ /\ Len(queue) < MaxQuietJobs
     /\ \E u \in Users : CreateDailyDigestEmail(u)
  \/ Processor(<<1, 1>>)

SpecQuiet == InitQuiet /\ [][NextQuiet]_vars

\* One server process whose database rejects writes from time to time.
NextPersist ==
  \/ Environment(MaxPersistJobs, {FALSE})
  \/ \E s \in Slots : Inst(s) = 1 /\ (Processor(s) \/ PersistenceFails(s))

SpecPersist == Init /\ [][NextPersist]_vars

\* processQueue and processEmailJob with a database that answers every call.
WorkingProcessor(s) ==
  \/ ProcessQueue(s)
  \/ FindPending(s)
  \/ MarkProcessing(s)
  \/ CheckPreferences(s)
  \/ RecipientMissing(s)
  \/ SendSucceeds(s)
  \/ SendFails(s)

\* A tick has work: the cron schedule fires every minute, several times
\* between two readings of the clock, so the clock is read again only when
\* none has.
TickDue ==
  \/ Eligible(queue, now) # {}
  \/ \E s \in Slots : ticks[s].batch # <<>>

GoneClock == ~TickDue /\ AdvanceClockUpTo(MaxGoneClockSteps * RetryDelay)

\* Jobs are created for users who exist, while their retries still fall
\* inside the observed time.
GoneProducer ==
  /\ Len(queue) < MaxGoneJobs
  /\ now + (RetryAttempts - 1) * RetryDelay <= MaxGoneClockSteps * RetryDelay
  /\ \E u \in users : CreateDailyDigestEmail(u)

\* One server process, no admin request; user documents can disappear.
NextGone ==
  \/ GoneClock
  \/ \E u \in Users : GetNotificationPreferences(u)
  \/ GoneProducer
  \/ \E u \in Users : RemoveUser(u)
  \/ WorkingProcessor(<<1, 1>>)
  \/ WorkingProcessor(<<1, 2>>)

\* The interval timer keeps firing, every await of a tick settles and time
\* passes.
SpecGone ==
  /\ Init
  /\ [][NextGone]_vars
  /\ WF_vars(GoneClock)
  /\ WF_vars(WorkingProcessor(<<1, 1>>))
  /\ WF_vars(WorkingProcessor(<<1, 2>>))

\* The notification types of emailTypeMap.
AllNotifyTypes ==
  {"job_match", "job_application", "application_status_change",
   "interview_scheduled", "connection_request", "connection_accepted",
   "skill_endorsed", "recommendation_request", "recommendation_received",
   "assessment_invitation", "assessment_completed", "skill_verified"}

\* One server process; the user settles the preferences, then notifications
\* arrive and the processor delivers them.
NextAgree ==
  \/ AdvanceClock
  \/ /\ queue = <<>>
     /\ \E u \in Users, p \in CategoryPrefChoices :
          UpdateNotificationPreferences(u, p)
  \/ /\ Len(queue) < MaxAgreeJobs
     /\ \E u \in Users, n \in AllNotifyTypes :
          QueueEmailNotification(u, n, FALSE)
  \/ Processor(<<1, 1>>)

SpecAgree == Init /\ [][NextAgree]_vars

(* ------------------------------- claims -------------------------------- *)

\* The ticks that hold a loaded copy of job j.
Holders(j) ==
  { s \in Slots : \E i \in 1..Len(ticks[s].batch) : ticks[s].batch[i].id = j }

\* The transport was invoked for job j in this step.
Invoked(j) == sends'[j] > sends[j]

\* C1: two ticks that select the same pending job invoke the transport once:
\* every invocation follows a won pending -> processing transition, so a job
\* has never been handed to the transport more often than attempts counts.
C1_NoDoubleSend ==
  \A j \in JobIds : sends[j] <= queue[j].attempts

\* C2: a job whose sends all fail returns to pending with scheduledFor = time of
\* failure + retryDelay after the first two failures, is attempted at least
\* retryDelay apart, becomes failed with a reason on the third failure after
\* exactly three transport calls, and is not attempted while it is failed (a
\* failed job becomes pending again only by an admin retry).
C2_Counts ==
  \A j \in JobIds :
    /\ sends[j] <= RetryAttempts
    /\ queue[j].status = "failed" =>
         /\ sends[j] = RetryAttempts
         /\ queue[j].attempts = RetryAttempts
         /\ queue[j].failureReason # NoReason

C2_Steps ==
  \A j \in JobIds :
    /\ (queue[j].status = "processing" /\ queue'[j].status = "pending") =>
         /\ queue'[j].scheduledFor = now + RetryDelay
         /\ queue'[j].attempts < RetryAttempts
    /\ (queue[j].status # "failed" /\ queue'[j].status = "failed") =>
         /\ \/ queue[j].status = "processing"
            \/ queue[j].failureReason = CancelledByAdmin
         /\ queue'[j].failureReason = TransportError
    /\ (queue[j].status # "processing" /\ queue'[j].status = "processing"
        /\ queue'[j].attempts >= 2) =>
         now >= queue[j].lastAttempt + RetryDelay
    /\ queue[j].status = "failed" =>
         /\ ~Invoked(j)
         /\ queue'[j].status # "processing"
         /\ queue'[j].status = "pending" => admin.op = "retry" /\ admin.id = j

C2_RetryExhaustion == []C2_Counts /\ [][C2_Steps]_vars

C2_Witness ==
  \E j \in JobIds :
    /\ queue[j].status = "failed"
    /\ sends[j] = RetryAttempts
    /\ queue[j].lastAttempt = 2 * RetryDelay

\* C3: a job evaluated during the recipient's quiet hours is not cancelled: it
\* returns to pending, scheduled outside the window, with the attempt
\* increment rolled back.
C3_Step ==
  \A s \in Slots :
    (ticks[s].pc = "prefs" /\ ticks'[s] # ticks[s]) =>
      LET d == Head(ticks[s].batch)
          p == prefs[queue[d.id].recipient]
      IN  (/\ p.exists
           /\ p.enabled
           /\ EmailPref(p, TypePreferenceKey(queue[d.id].emailType))
           /\ InQuietHours(p, now)) =>
            /\ queue'[d.id].status = "pending"
            /\ queue'[d.id].attempts = d.attempts - 1
            /\ queue'[d.id].scheduledFor >= now
            /\ ~InQuietHours(p, queue'[d.id].scheduledFor)

C3_QuietHoursDefer == [][C3_Step]_vars

\* C4: every job has attempts <= maxAttempts in every reachable state.
C4_AttemptsBounded ==
  \A j \in JobIds : queue[j].attempts <= RetryAttempts

C4_Witness ==
  \E j \in JobIds :
    queue[j].attempts = RetryAttempts /\ queue[j].status = "processing"

\* C5: a job with status sent has sentAt set and failureReason unset.
C5_SentIsClean ==
  \A j \in JobIds :
    queue[j].status = "sent" =>
      queue[j].sentAt # NoDate /\ queue[j].failureReason = NoReason

\* C6: a job with status failed has attempts = maxAttempts.
C6_FailedIsExhausted ==
  \A j \in JobIds :
    queue[j].status = "failed" => queue[j].attempts = RetryAttempts

C6_Witness ==
  \E j \in JobIds :
    queue[j].status = "failed" /\ queue[j].failureReason = TransportError

\* The recipient's stored preferences opt out of the e-mail type.
IsOptedOut(p, emailType) ==
  /\ p.exists
  /\ \/ ~p.enabled
     \/ ~EmailPref(p, TypePreferenceKey(emailType))

\* C7: a job the processor finds opted out at processing time becomes cancelled
\* with a reason without a transport call, no tick keeps a copy of it, and a
\* cancelled job no tick holds is never sent, attempted or failed again.
C7_Step ==
  /\ \A s \in Slots :
       (ticks[s].pc = "prefs" /\ ticks'[s] # ticks[s]) =>
         LET d == Head(ticks[s].batch)
         IN  IsOptedOut(prefs[queue[d.id].recipient], queue[d.id].emailType) =>
               /\ queue'[d.id].status = "cancelled"
               /\ queue'[d.id].failureReason # NoReason
               /\ ~Invoked(d.id)
               /\ \A r \in Slots :
                    \A i \in 1..Len(ticks'[r].batch) :
                      ticks'[r].batch[i].id # d.id
  /\ \A j \in JobIds :
       (queue[j].status = "cancelled" /\ Holders(j) = {}) =>
         /\ queue'[j].status = "cancelled"
         /\ queue'[j].attempts = queue[j].attempts
         /\ ~Invoked(j)
         /\ \A r \in Slots :
              \A i \in 1..Len(ticks'[r].batch) : ticks'[r].batch[i].id # j

C7_OptOutCancels == [][C7_Step]_vars

C7_Witness ==
  \E j \in JobIds :
    /\ queue[j].emailType = "notification_immediate"
    /\ queue[j].status = "cancelled"
    /\ queue[j].failureReason = OptedOut
    /\ sends[j] = 0
    /\ IsOptedOut(prefs[queue[j].recipient], queue[j].emailType)

\* The priority order the queue is meant to follow.
PriorityRank(p) ==
  CASE p = "high" -> 3 [] p = "medium" -> 2 [] p = "low" -> 1

\* C8: the jobs of a tick are handled high before medium before low, and
\* oldest first among equal priorities.
C8_PriorityOrder ==
  \A s \in Slots :
    \A i, k \in 1..Len(ticks[s].batch) :
      i < k =>
        LET a == queue[ticks[s].batch[i].id]
            b == queue[ticks[s].batch[k].id]
        IN  \/ PriorityRank(a.priority) > PriorityRank(b.priority)
            \/ /\ a.priority = b.priority
               /\ a.createdAt <= b.createdAt

\* C9: a tick holds at most batchSize jobs, and the transport is invoked only
\* for a job that is due and is not sent, failed or cancelled.
C9_Step ==
  \A j \in JobIds :
    Invoked(j) =>
      /\ queue[j].scheduledFor <= now
      /\ queue[j].status \notin {"sent", "failed", "cancelled"}

C9_OnlyEligibleSent ==
  /\ [](\A s \in Slots : Len(ticks[s].batch) <= BatchSize)
  /\ [][C9_Step]_vars

\* The ticks of instance i that are running.
Running(i) == { s \in Slots : Inst(s) = i /\ ticks[s].pc # "idle" }

\* C10: at most one tick of a processor runs at a time, the guard is held
\* exactly while one runs, a tick starts only when the guard is free and the
\* guard is free again when a tick ends.
C10_Guard ==
  \A i \in Insts :
    /\ Cardinality(Running(i)) <= 1
    /\ isProcessing[i] <=> Running(i) # {}

C10_Steps ==
  \A s \in Slots :
    /\ (ticks[s].pc = "idle" /\ ticks'[s].pc # "idle") =>
         /\ ~isProcessing[Inst(s)]
         /\ Running(Inst(s)) = {}
         /\ ticks'[s].pc = "find"
    /\ (ticks[s].pc # "idle" /\ ticks'[s].pc = "idle") =>
         ~isProcessing'[Inst(s)]
    /\ (isProcessing[Inst(s)] /\ ticks[s].pc = "idle") =>
         ticks'[s].pc = "idle"

C10_SingleFlight == []C10_Guard /\ [][C10_Steps]_vars

C10_Witness ==
  /\ isProcessing[1]
  /\ ticks[<<1, 1>>].pc = "send"
  /\ ticks[<<1, 2>>].pc = "idle"
  /\ ENABLED ProcessQueue(<<1, 2>>)

\* C11: a job is stored as processing, with attempts counted and lastAttempt
\* set, before the transport is invoked, and a job left in processing by a
\* crash is reset at the next start, so no job stays in processing forever.
C11_MarkedBeforeSend ==
  \A j \in JobIds :
    Invoked(j) =>
      /\ queue[j].status = "processing"
      /\ queue[j].attempts >= 1
      /\ queue[j].lastAttempt # NoDate

C11_CrashRecovery ==
  /\ [][C11_MarkedBeforeSend]_vars
  /\ \A j \in 1..MaxCrashJobs :
       (Len(queue) >= j /\ queue[j].status = "processing")
         ~> (Len(queue) >= j /\ queue[j].status # "processing")

\* The digest jobs of type emailType created for user u on the day of t.
DigestJobsOn(u, emailType, t) ==
  { j \in JobIds : /\ queue[j].recipient = u
                   /\ queue[j].emailType = emailType
                   /\ Day(queue[j].createdAt) = Day(t) }

\* C12: when the daily (weekly) generator has run twice for a user in the
\* current period, the queue holds exactly one daily (weekly) digest job of
\* that period for the user.
C12_DigestIdempotent ==
  \A u \in Users :
    /\ digestRuns[u].daily >= 2 =>
         Cardinality(DigestJobsOn(u, "daily_digest", now)) = 1
    /\ digestRuns[u].weekly >= 2 =>
         Cardinality(DigestJobsOn(u, "weekly_digest", now)) = 1

\* C13: cancelEmail accepts a job it reads as pending or processing and its
\* save stores status cancelled; it answers a job it reads as sent or failed
\* with an error and writes nothing.
C13_Answers ==
  \A j \in JobIds :
    /\ queue[j].status \in {"pending", "processing"} =>
         CancelEmailStatus(queue[j]) = 200
    /\ queue[j].status \in {"sent", "failed"} =>
         CancelEmailStatus(queue[j]) = 400

C13_Steps ==
  /\ (admin.op = "none" /\ admin'.op = "cancel") =>
       /\ queue[admin'.id].status \in {"pending", "processing"}
       /\ queue' = queue
  /\ (admin.op = "cancel" /\ admin'.op = "none" /\ up' = up) =>
       /\ queue'[admin.id].status = "cancelled"
       /\ \A j \in JobIds : j # admin.id => queue'[j] = queue[j]

C13_CancelContract == []C13_Answers /\ [][C13_Steps]_vars

C13_Witness ==
  \E j \in JobIds :
    /\ queue[j].status = "cancelled"
    /\ queue[j].failureReason = CancelledByAdmin
    /\ queue[j].lastAttempt # NoDate

\* C14: retryFailedEmail accepts a job it reads as failed and its save leaves
\* the job pending with attempts 0, no failureReason and scheduledFor = now,
\* so that it is selected again and gets up to maxAttempts transport calls;
\* it answers a job in any other status with an error and writes nothing.
C14_Answers ==
  \A j \in JobIds :
    /\ queue[j].status = "failed" => RetryFailedEmailStatus(queue[j]) = 200
    /\ queue[j].status # "failed" => RetryFailedEmailStatus(queue[j]) = 400
    /\ sends[j] <= RetryAttempts
    /\ queue[j].status = "failed" => sends[j] = RetryAttempts

C14_Steps ==
  /\ (admin.op = "none" /\ admin'.op = "retry") =>
       /\ queue[admin'.id].status = "failed"
       /\ queue' = queue
  /\ (admin.op = "retry" /\ admin'.op = "none" /\ up' = up) =>
       /\ queue'[admin.id] =
            [queue[admin.id] EXCEPT !.status = "pending", !.attempts = 0,
                                    !.scheduledFor = now,
                                    !.failureReason = NoReason]
       /\ admin.id \in Eligible(queue', now)
       /\ sends'[admin.id] = 0
       /\ \A j \in JobIds : j # admin.id => queue'[j] = queue[j]

C14_RetryContract == []C14_Answers /\ [][C14_Steps]_vars

C14_Witness ==
  \E j \in JobIds :
    /\ queue[j].status = "pending"
    /\ queue[j].attempts = 0
    /\ queue[j].failureReason = NoReason
    /\ queue[j].lastAttempt = 2 * RetryDelay
    /\ queue[j].scheduledFor = 2 * RetryDelay
    /\ j \in Eligible(queue, now)

\* A call of createNotification stored a Notification in this step.
Notified == Len(notifications') = Len(notifications) + 1

\* C15: when the recipient has switched e-mail off, or has switched off the
\* category the notification's type maps to, a call of createNotification
\* stores the Notification and adds no job to the queue.
C15_Step ==
  /\ (/\ lastCall' # lastCall
      /\ lastCall'.call = "createNotification"
      /\ lastCall'.fault = "none") => Notified
  /\ Notified =>
       LET n == notifications'[Len(notifications')]
           p == prefs[n.recipient]
           key == NotificationPreferenceKey(n.type)
       IN  (/\ p.exists
            /\ \/ ~p.enabled
               \/ key # "" /\ EmailPref(p, key) = FALSE) =>
             queue' = queue

C15_NoJobWhenOptedOut == [][C15_Step]_vars

C15_Witness ==
  /\ lastCall = [call |-> "createNotification", fault |-> "none",
                 outcome |-> "returned"]
  /\ queue = <<>>
  /\ \E i \in 1..Len(notifications) :
       LET n == notifications[i]
       IN  /\ n.type = "job_match"
           /\ prefs[n.recipient].exists
           /\ prefs[n.recipient].enabled
           /\ ~prefs[n.recipient].jobMatches

\* C16: when the recipient's frequency is daily or weekly, a call of
\* createNotification stores the Notification and adds no job to the queue.
C16_Step ==
  Notified =>
    LET n == notifications'[Len(notifications')]
        p == prefs[n.recipient]
    IN  (p.exists /\ p.frequency \in {"daily", "weekly"}) => queue' = queue

C16_NoImmediateJob == [][C16_Step]_vars

\* C17: when the push, the preferences lookup, the template lookup or the
\* creation of the job rejects, createNotification has stored the
\* Notification and returns it; no error reaches the caller.
C17_Step ==
  (/\ lastCall' # lastCall \/ notifications' # notifications
   /\ lastCall'.fault \in {"push", "prefs", "template", "queue"}) =>
    /\ Notified
    /\ lastCall'.outcome = "returned"

C17_NotifyNeverFails ==
  /\ [](lastCall.fault \in {"push", "prefs", "template", "queue"} =>
          lastCall.outcome = "returned")
  /\ [][C17_Step]_vars

C17_Witness ==
  /\ lastCall = [call |-> "createNotification", fault |-> "queue",
                 outcome |-> "returned"]
  /\ Len(notifications) = 1
  /\ prefs[notifications[1].recipient].exists
  /\ WantsEmail(prefs[notifications[1].recipient], notifications[1].type)
  /\ queue = <<>>

\* C18: a job whose k-th transport call succeeds (k <= maxAttempts, the
\* earlier ones having failed) is sent with attempts = k and sentAt set, and a
\* job becomes failed only in the step in which its last allowed transport
\* call fails.
C18_Sent ==
  \A j \in JobIds :
    queue[j].status = "sent" =>
      /\ queue[j].attempts = sends[j]
      /\ queue[j].attempts \in 1..RetryAttempts
      /\ queue[j].sentAt # NoDate

C18_Steps ==
  /\ \A s \in Slots :
       (ticks[s].pc = "send" /\ ticks'[s] # ticks[s] /\ up' = up) =>
         LET d == Head(ticks[s].batch)
         IN  /\ queue'[d.id].status \in {"sent", "pending", "failed"}
             /\ queue'[d.id].status = "sent" =>
                  /\ queue'[d.id].attempts = d.attempts
                  /\ queue'[d.id].sentAt = now
             /\ queue'[d.id].status = "pending" => d.attempts < RetryAttempts
             /\ queue'[d.id].status = "failed" => d.attempts = RetryAttempts
  /\ \A j \in JobIds :
       (queue[j].status # "failed" /\ queue'[j].status = "failed") =>
         /\ queue'[j].failureReason = TransportError
         /\ queue'[j].sentAt = queue[j].sentAt
         /\ \E s \in Slots :
              /\ ticks[s].pc = "send"
              /\ ticks'[s] # ticks[s]
              /\ Head(ticks[s].batch).id = j
              /\ Head(ticks[s].batch).attempts = RetryAttempts

C18_SuccessAfterFailures == []C18_Sent /\ [][C18_Steps]_vars

C18_Witness ==
  \E j \in JobIds :
    /\ queue[j].status = "sent"
    /\ queue[j].attempts = RetryAttempts
    /\ sends[j] = RetryAttempts
    /\ queue[j].sentAt = 2 * RetryDelay
    /\ queue[j].failureReason = NoReason

\* C19: a job leaves the queue only in a step of the retention sweep, which
\* changes nothing else, and only if it is sent, failed or cancelled and was
\* created more than the retention window ago; a pending or processing job
\* is never removed.
C19_Step ==
  \A j \in JobIds :
    (queue[j].status # Deleted /\ queue'[j].status = Deleted) =>
      /\ queue[j].status \in {"sent", "failed", "cancelled"}
      /\ queue[j].createdAt < now - RetentionWindow
      /\ Len(queue') = Len(queue)
      /\ \A k \in JobIds :
           \/ queue'[k] = queue[k]
           \/ queue'[k] = [queue[k] EXCEPT !.status = Deleted]
      /\ UNCHANGED <<now, prefs, isProcessing, ticks, admin, sends>>

C19_SweepOnly ==
  /\ [](\A s \in Slots : \A i \in 1..Len(ticks[s].batch) :
          queue[ticks[s].batch[i].id].status \in {"pending", "processing"})
  /\ [][C19_Step]_vars

C19_Witness ==
  \E j \in JobIds :
    /\ queue[j].status = Deleted
    /\ queue[j].sentAt = RetryDelay
    /\ now = RetentionWindow + 2 * RetryDelay

\* C20: a transport call that is not answered is ended and handled like a
\* failure, so a running tick always ends and releases the guard, and a job
\* in processing always leaves processing.
C20_TickTerminates ==
  /\ isProcessing[1] ~> ~isProcessing[1]
  /\ \A j \in 1..MaxHangJobs :
       (Len(queue) >= j /\ queue[j].status = "processing")
         ~> (Len(queue) >= j /\ queue[j].status # "processing")

\* C21: a template that fails to render does not keep a job out of the
\* queue: the call that hit the render error still adds its job, pending and
\* ready to be sent.
C21_Step ==
  (lastCall' # lastCall /\ lastCall'.fault = "render") =>
    /\ Len(queue') = Len(queue) + 1
    /\ queue'[Len(queue')].status = "pending"
    /\ queue'[Len(queue')].emailType = "daily_digest"

C21_RenderFallback == [][C21_Step]_vars

\* C22: a job whose recipient has stored no preferences is handed to the
\* transport when the processor evaluates it; it is not cancelled.
C22_Step ==
  \A s \in Slots :
    (ticks[s].pc = "prefs" /\ ticks'[s] # ticks[s] /\ up' = up) =>
      LET d == Head(ticks[s].batch)
      IN  ~prefs[queue[d.id].recipient].exists =>
            /\ Invoked(d.id)
            /\ queue'[d.id].status # "cancelled"

C22_PermissiveDefaults == [][C22_Step]_vars

\* The jobs of type emailType this step adds for user u.
AddedJobs(u, emailType) ==
  { j \in (Len(queue) + 1)..Len(queue') :
      queue'[j].recipient = u /\ queue'[j].emailType = emailType }

\* C23: a run of the daily (weekly) generator adds exactly one low-priority
\* daily (weekly) digest job for each user whose frequency is daily (weekly)
\* and none for any other user.
C23_Step ==
  /\ (\E u \in Users : digestRuns'[u].daily > digestRuns[u].daily) =>
       \A u \in Users :
         /\ Cardinality(AddedJobs(u, "daily_digest")) =
              IF prefs[u].exists /\ prefs[u].frequency = "daily" THEN 1 ELSE 0
         /\ \A j \in AddedJobs(u, "daily_digest") : queue'[j].priority = "low"
  /\ (\E u \in Users : digestRuns'[u].weekly > digestRuns[u].weekly) =>
       \A u \in Users :
         /\ Cardinality(AddedJobs(u, "weekly_digest")) =
              IF prefs[u].exists /\ prefs[u].frequency = "weekly" THEN 1 ELSE 0
         /\ \A j \in AddedJobs(u, "weekly_digest") : queue'[j].priority = "low"

C23_DigestPerMatchingUser == [][C23_Step]_vars

\* C24: a notification that is read has its time of reading set, and no
\* step takes the time of reading away from a notification that stays read.
C24_ReadHasDate ==
  \A i \in 1..Len(notifications) :
    notifications[i].isRead => notifications[i].readAt # NoDate

C24_Step ==
  Len(notifications') = Len(notifications) =>
    \A i \in 1..Len(notifications) :
      /\ (~notifications[i].isRead /\ notifications'[i].isRead) =>
           notifications'[i].readAt = now
      /\ (notifications[i].isRead /\ notifications'[i].isRead) =>
           notifications'[i].readAt # NoDate

C24_ReadAtSet == []C24_ReadHasDate /\ [][C24_Step]_vars

C24_Witness ==
  /\ Len(notifications) = 2
  /\ notifications[1].isRead /\ notifications[1].readAt = 0
  /\ notifications[1].isArchived
  /\ notifications[2].isRead /\ notifications[2].readAt = RetryDelay

\* C25: a call of a queue helper on the exported processor adds exactly one
\* job for the user: pending, attempts 0, scheduledFor = now, priority high
\* for welcome and password reset and medium for job alert.
C25_Step ==
  (lastCall' # lastCall /\ lastCall'.call \in QueueHelpers) =>
    /\ lastCall'.outcome = "returned"
    /\ Len(queue') = Len(queue) + 1
    /\ LET job == queue'[Len(queue')]
       IN  /\ job.status = "pending"
           /\ job.attempts = 0
           /\ job.scheduledFor = now
           /\ job.priority = IF lastCall'.call = "queueJobAlertEmail"
                              THEN "medium" ELSE "high"

C25_HelperQueuesOneJob == [][C25_Step]_vars

\* C26: once a job is sent or cancelled its status never changes again,
\* whatever the interleaving of an admin cancel with a processing attempt.
C26_Step ==
  \A i \in 1..Len(queue) :
    queue[i].status \in {"sent", "cancelled"} =>
      queue'[i].status = queue[i].status

C26_TerminalIsFinal == [][C26_Step]_vars

\* The hour an "HH:00" string names.
HourOf(str) == CHOOSE h \in Hours : HourString(h) = str

\* C27: with e-mail on for the type, the processor treats the current hour as
\* inside the quiet window iff quiet hours are enabled and, when start > end,
\* hour >= start or hour <= end, else start <= hour <= end.
C27_Step ==
  \A s \in Slots :
    (ticks[s].pc = "prefs" /\ ticks'[s] # ticks[s]) =>
      LET d == Head(ticks[s].batch)
          job == queue[d.id]
          p == prefs[job.recipient]
          hour == GetHours(now)
          start == HourOf(p.startTime)
          end == HourOf(p.endTime)
          inside == /\ p.qhEnabled
                    /\ IF start > end
                       THEN hour >= start \/ hour <= end
                       ELSE start <= hour /\ hour <= end
      IN  (/\ p.exists
           /\ p.enabled
           /\ EmailPref(p, TypePreferenceKey(job.emailType))) =>
            (queue'[d.id].status = "cancelled" <=> inside)

C27_QuietWindow == [][C27_Step]_vars

\* A job was skipped after midnight inside a window that started the evening
\* before.
C27_Witness ==
  \E i \in 1..Len(queue) :
    LET p == prefs[queue[i].recipient]
    IN  /\ queue[i].status = "cancelled"
        /\ p.qhEnabled
        /\ HourOf(p.startTime) > HourOf(p.endTime)
        /\ GetHours(now) <= HourOf(p.endTime)

\* Tick s is inside its loop, handling the document at the head of its batch.
InLoop(s) == ticks[s].pc \in {"mark", "prefs", "send"}

\* This step gives up the document tick s was handling: the tick ends and
\* nothing of the document was stored.
Abandons(s) ==
  /\ InLoop(s)
  /\ ticks'[s].pc = "idle"
  /\ queue'[Head(ticks[s].batch).id] = queue[Head(ticks[s].batch).id]

\* C28: an error that escapes the handling of one job abandons that job only:
\* a tick does not end while documents of its batch are left, and the
\* abandoned job is left in a state the next find() matches.
C28_Step ==
  \A s \in Slots :
    /\ (InLoop(s) /\ Len(ticks[s].batch) > 1) => ticks'[s].pc # "idle"
    /\ Abandons(s) =>
         LET job == queue'[Head(ticks[s].batch).id]
         IN  job.status = "pending" /\ job.attempts < RetryAttempts

C28_OnlyThatJobAbandoned == [][C28_Step]_vars

\* C29: with fair ticks, a transport that answers, a database that works and
\* no admin request, every job of the queue eventually is sent, failed or
\* cancelled, also when its recipient's user document is gone.
C29_EveryJobSettles ==
  \A j \in 1..MaxGoneJobs :
    (Len(queue) >= j) ~>
      (Len(queue) >= j /\ queue[j].status \in {"sent", "failed", "cancelled"})

\* C30: a job that notify() created is not cancelled as opted out when the
\* profile is the one it was created under (SpecAgree changes no profile
\* once a job exists) and quiet hours are not in effect.
C30_Step ==
  \A s \in Slots :
    (ticks[s].pc = "prefs" /\ ticks'[s] # ticks[s]) =>
      LET d == Head(ticks[s].batch)
          p == prefs[queue[d.id].recipient]
      IN  ~InQuietHours(p, now) =>
            ~(/\ queue'[d.id].status = "cancelled"
              /\ queue'[d.id].failureReason = OptedOut)

C30_DecisionsAgree == [][C30_Step]_vars

====
